---------------------------- MODULE Spec2Model ----------------------------
(***************************************************************************)
(* The VTQ CSV validator of ValidateVtqCsv/validator.py as a state         *)
(* machine: validate_csv_text / validate_csv_stream reading a submission   *)
(* record by record from csv.reader, validate_field and                    *)
(* is_permitted_exclusion per cell, validate_record_level per row.         *)
(*                                                                         *)
(* A Python str is a tuple of one-character strings, so that strip(),      *)
(* len(), re.match() and strptime() are computed on the characters.  Three *)
(* characters have names: "BOM" (U+FEFF), "TAB" and "LF".                  *)
(***************************************************************************)
EXTENDS Integers, Sequences, FiniteSets, TLC

\* ------------------------------------------------------------------------
\* Characters and str methods

Digit ==
    {"0", "1", "2", "3", "4", "5", "6", "7", "8", "9"}

Upper ==
    {"A", "B", "C", "D", "E", "F", "G", "H", "I", "J", "K", "L", "M",
     "N", "O", "P", "Q", "R", "S", "T", "U", "V", "W", "X", "Y", "Z"}

\* The characters str.strip() removes and \s matches (those of the model's
\* alphabet; U+FEFF is not among them in Python either).
Whitespace ==
    {" ", "TAB", "LF"}

MinOf(S) ==
    CHOOSE x \in S : \A y \in S : x <= y

MaxOf(S) ==
    CHOOSE x \in S : \A y \in S : y <= x

\* s.strip(chars)
StripChars(s, chars) ==
    LET keep == {i \in 1..Len(s) : s[i] \notin chars}
    IN  IF keep = {} THEN <<>> ELSE SubSeq(s, MinOf(keep), MaxOf(keep))

\* s.lstrip(): what a strip() that forgot the right-hand side would do
LStripOnly(s) ==
    LET keep == {i \in 1..Len(s) : s[i] \notin Whitespace}
    IN  IF keep = {} THEN <<>> ELSE SubSeq(s, MinOf(keep), Len(s))

\* s.strip()
Strip(s) ==
    StripChars(s, Whitespace)

\* needle in s
Contains(s, needle) ==
    \E i \in 1..(Len(s) - Len(needle) + 1) :
        SubSeq(s, i, i + Len(needle) - 1) = needle

\* ------------------------------------------------------------------------
\* Regular expressions: a pattern ^(a1|a2|...)$ is the set of its
\* alternatives, each a sequence of atoms [cls, lo, hi]: between lo and hi
\* characters of the class cls (hi = -1: no upper limit).

Atom(cls, lo, hi) ==
    [cls |-> cls, lo |-> lo, hi |-> hi]

\* A literal string as a sequence of atoms
Lit(s) ==
    [i \in 1..Len(s) |-> Atom({s[i]}, 1, 1)]

\* The positions of s at which a match of the atoms starting at 0 can end
MatchEnds(atoms, s) ==
    LET n == Len(s)
        Step(P, a) ==
            UNION {{p + k : k \in {k \in a.lo..(n - p) :
                                      /\ (a.hi = -1 \/ k <= a.hi)
                                      /\ \A j \in (p + 1)..(p + k) : s[j] \in a.cls}}
                   : p \in P}
        F[i \in 0..Len(atoms)] ==
            IF i = 0 THEN {0} ELSE Step(F[i - 1], atoms[i])
    IN  F[Len(atoms)]

\* re.match(pattern, s) for a pattern anchored with ^ and $ (s is stripped
\* where the validator matches, so $ can only match at the very end)
ReMatch(pattern, s) ==
    \E alt \in pattern : Len(s) \in MatchEnds(alt, s)

\* ------------------------------------------------------------------------
\* Specification constants

EXPECTED_COLUMNS ==
    <<
      "RecordType", "UniqueCandidateIdentifier", "UniqueLearnerNumber",
      "UniquePupilNumber", "CandidateIdentifierOther", "FirstName",
      "MiddleNames", "Surname", "Sex",
      "DOB", "NCN", "CentreURN",
      "LAESTAB", "CentreIdentifierOther", "UKPRN",
      "CentreName", "CentreAddress1", "CentreAddress2",
      "CentreAddress3", "CentreAddress4", "CentrePostcode",
      "CentreType", "QualificationNumberType", "QualificationNumber",
      "SpecificationCode", "SpecificationTitle", "QualificationType",
      "ExamSeries", "RegistrationDate", "FirstEntryDate",
      "AwardDate", "QualificationGrade", "PrivateCandidate",
      "PartialAbsence" >>

\* The spelling of each column name, for the comparison with the header row
ColumnText ==
    [ RecordType |-> <<"R","e","c","o","r","d","T","y","p","e">>,
      UniqueCandidateIdentifier |-> <<"U","n","i","q","u","e","C","a","n","d","i","d","a","t","e","I","d","e","n","t","i","f","i","e","r">>,
      UniqueLearnerNumber |-> <<"U","n","i","q","u","e","L","e","a","r","n","e","r","N","u","m","b","e","r">>,
      UniquePupilNumber |-> <<"U","n","i","q","u","e","P","u","p","i","l","N","u","m","b","e","r">>,
      CandidateIdentifierOther |-> <<"C","a","n","d","i","d","a","t","e","I","d","e","n","t","i","f","i","e","r","O","t","h","e","r">>,
      FirstName |-> <<"F","i","r","s","t","N","a","m","e">>,
      MiddleNames |-> <<"M","i","d","d","l","e","N","a","m","e","s">>,
      Surname |-> <<"S","u","r","n","a","m","e">>,
      Sex |-> <<"S","e","x">>,
      DOB |-> <<"D","O","B">>,
      NCN |-> <<"N","C","N">>,
      CentreURN |-> <<"C","e","n","t","r","e","U","R","N">>,
      LAESTAB |-> <<"L","A","E","S","T","A","B">>,
      CentreIdentifierOther |-> <<"C","e","n","t","r","e","I","d","e","n","t","i","f","i","e","r","O","t","h","e","r">>,
      UKPRN |-> <<"U","K","P","R","N">>,
      CentreName |-> <<"C","e","n","t","r","e","N","a","m","e">>,
      CentreAddress1 |-> <<"C","e","n","t","r","e","A","d","d","r","e","s","s","1">>,
      CentreAddress2 |-> <<"C","e","n","t","r","e","A","d","d","r","e","s","s","2">>,
      CentreAddress3 |-> <<"C","e","n","t","r","e","A","d","d","r","e","s","s","3">>,
      CentreAddress4 |-> <<"C","e","n","t","r","e","A","d","d","r","e","s","s","4">>,
      CentrePostcode |-> <<"C","e","n","t","r","e","P","o","s","t","c","o","d","e">>,
      CentreType |-> <<"C","e","n","t","r","e","T","y","p","e">>,
      QualificationNumberType |-> <<"Q","u","a","l","i","f","i","c","a","t","i","o","n","N","u","m","b","e","r","T","y","p","e">>,
      QualificationNumber |-> <<"Q","u","a","l","i","f","i","c","a","t","i","o","n","N","u","m","b","e","r">>,
      SpecificationCode |-> <<"S","p","e","c","i","f","i","c","a","t","i","o","n","C","o","d","e">>,
      SpecificationTitle |-> <<"S","p","e","c","i","f","i","c","a","t","i","o","n","T","i","t","l","e">>,
      QualificationType |-> <<"Q","u","a","l","i","f","i","c","a","t","i","o","n","T","y","p","e">>,
      ExamSeries |-> <<"E","x","a","m","S","e","r","i","e","s">>,
      RegistrationDate |-> <<"R","e","g","i","s","t","r","a","t","i","o","n","D","a","t","e">>,
      FirstEntryDate |-> <<"F","i","r","s","t","E","n","t","r","y","D","a","t","e">>,
      AwardDate |-> <<"A","w","a","r","d","D","a","t","e">>,
      QualificationGrade |-> <<"Q","u","a","l","i","f","i","c","a","t","i","o","n","G","r","a","d","e">>,
      PrivateCandidate |-> <<"P","r","i","v","a","t","e","C","a","n","d","i","d","a","t","e">>,
      PartialAbsence |-> <<"P","a","r","t","i","a","l","A","b","s","e","n","c","e">> ]

SENTINEL_DATES ==
    {<<"2","9","9","9","-","1","2","-","3","1">>, <<"3","1","/","1","2","/","2","9","9","9">>}

\* [A-Z]{1,2}\d[A-Z\d]?\s*\d[A-Z]{2}
UK_POSTCODE_RE ==
    << Atom(Upper, 1, 2), Atom(Digit, 1, 1), Atom(Upper \cup Digit, 0, 1),
       Atom(Whitespace, 0, -1), Atom(Digit, 1, 1), Atom(Upper, 2, 2) >>

\* BFPO\s*\d{1,4}
BFPO_POSTCODE_RE ==
    Lit(<<"B","F","P","O">>) \o << Atom(Whitespace, 0, -1), Atom(Digit, 1, 4) >>

\* [AC-FHKNPRTV-Y]\d{1,2}[0-9A-Z]?\s*[0-9AC-FHKNPRTV-Y]{4}
IRISH_POSTCODE_RE ==
    LET eir == {"A", "C", "D", "E", "F", "H", "K", "N", "P", "R", "T", "V", "W", "X", "Y"}
    IN  << Atom(eir, 1, 1), Atom(Digit, 1, 2), Atom(Digit \cup Upper, 0, 1),
           Atom(Whitespace, 0, -1), Atom(Digit \cup eir, 4, 4) >>

CENTRE_POSTCODE_RE ==
    {UK_POSTCODE_RE, BFPO_POSTCODE_RE, IRISH_POSTCODE_RE}

QUALIFICATION_TYPE_VALUES ==
    { <<"A","l","t","e","r","n","a","t","i","v","e"," ","A","c","a","d","e","m","i","c"," ","Q","u","a","l","i","f","i","c","a","t","i","o","n">>,
      <<"A","p","p","r","e","n","t","i","c","e","s","h","i","p"," ","A","s","s","e","s","s","m","e","n","t"," ","Q","u","a","l","i","f","i","c","a","t","i","o","n">>,
      <<"D","i","g","i","t","a","l"," ","F","u","n","c","t","i","o","n","a","l"," ","S","k","i","l","l","s"," ","Q","u","a","l","i","f","i","c","a","t","i","o","n">>,
      <<"E","n","d","-","P","o","i","n","t"," ","A","s","s","e","s","s","m","e","n","t">>,
      <<"E","n","g","l","i","s","h"," ","F","o","r"," ","S","p","e","a","k","e","r","s"," ","o","f"," ","O","t","h","e","r"," ","L","a","n","g","u","a","g","e","s">>,
      <<"E","s","s","e","n","t","i","a","l"," ","D","i","g","i","t","a","l"," ","S","k","i","l","l","s">>,
      <<"E","s","s","e","n","t","i","a","l"," ","S","k","i","l","l","s"," ","(","N","o","r","t","h","e","r","n"," ","I","r","e","l","a","n","d",")">>,
      <<"F","u","n","c","t","i","o","n","a","l"," ","S","k","i","l","l","s">>,
      <<"K","e","y"," ","S","k","i","l","l","s">>,
      <<"O","c","c","u","p","a","t","i","o","n","a","l"," ","Q","u","a","l","i","f","i","c","a","t","i","o","n">>,
      <<"O","t","h","e","r"," ","G","e","n","e","r","a","l"," ","Q","u","a","l","i","f","i","c","a","t","i","o","n">>,
      <<"O","t","h","e","r"," ","V","o","c","a","t","i","o","n","a","l"," ","Q","u","a","l","i","f","i","c","a","t","i","o","n">>,
      <<"O","t","h","e","r"," ","L","i","f","e"," ","S","k","i","l","l","s"," ","Q","u","a","l","i","f","i","c","a","t","i","o","n">>,
      <<"P","e","r","f","o","r","m","i","n","g"," ","A","r","t","s"," ","G","r","a","d","e","d"," ","E","x","a","m","i","n","a","t","i","o","n">>,
      <<"Q","C","F">>,
      <<"T","e","c","h","n","i","c","a","l"," ","O","c","c","u","p","a","t","i","o","n"," ","Q","u","a","l","i","f","i","c","a","t","i","o","n">>,
      <<"T","e","c","h","n","i","c","a","l"," ","Q","u","a","l","i","f","i","c","a","t","i","o","n">>,
      <<"V","o","c","a","t","i","o","n","a","l","l","y","-","R","e","l","a","t","e","d"," ","Q","u","a","l","i","f","i","c","a","t","i","o","n">> }

\* ^(January|...|December) \d{4}$
EXAM_SERIES_RE ==
    { Lit(m \o <<" ">>) \o << Atom(Digit, 4, 4) >> :
        m \in { <<"J","a","n","u","a","r","y">>,
                 <<"F","e","b","r","u","a","r","y">>,
                 <<"M","a","r","c","h">>,
                 <<"A","p","r","i","l">>,
                 <<"M","a","y">>,
                 <<"J","u","n","e">>,
                 <<"J","u","l","y">>,
                 <<"A","u","g","u","s","t">>,
                 <<"S","e","p","t","e","m","b","e","r">>,
                 <<"O","c","t","o","b","e","r">>,
                 <<"N","o","v","e","m","b","e","r">>,
                 <<"D","e","c","e","m","b","e","r">> } }

\* The dataclass FieldSpec with its defaults; an Optional attribute is the
\* empty set (None) or the set holding its value.
FieldSpec ==
    [ mandatory |-> FALSE, allow_minus2 |-> FALSE, length |-> {}, min_length |-> {},
      max_length |-> {}, allowed_values |-> {}, pattern |-> {}, type |-> {} ]

\* ^[A-Z0-9]{n}$ and ^\d{n}$
AlnumRe(n) ==
    { << Atom(Upper \cup Digit, n, n) >> }

DigitsRe(n) ==
    { << Atom(Digit, n, n) >> }

FIELD_SPECS ==
    [ RecordType |->
        [FieldSpec EXCEPT
            !.mandatory = TRUE,
            !.allowed_values = {{<<"E","n","t","r","y">>, <<"R","e","s","u","l","t">>, <<"A","m","e","n","d","m","e","n","t">>, <<"D","e","l","e","t","i","o","n">>}}],
      UniqueCandidateIdentifier |->
        [FieldSpec EXCEPT
            !.allow_minus2 = TRUE,
            !.length = {13},
            !.pattern = {AlnumRe(13)}],
      UniqueLearnerNumber |->
        [FieldSpec EXCEPT
            !.allow_minus2 = TRUE,
            !.length = {10},
            !.pattern = {DigitsRe(10)}],
      UniquePupilNumber |->
        [FieldSpec EXCEPT
            !.allow_minus2 = TRUE,
            !.length = {13},
            !.pattern = {AlnumRe(13)}],
      CandidateIdentifierOther |->
        [FieldSpec EXCEPT
            !.allow_minus2 = TRUE,
            !.min_length = {1},
            !.max_length = {20}],
      FirstName |->
        [FieldSpec EXCEPT
            !.mandatory = TRUE,
            !.min_length = {1},
            !.max_length = {150}],
      MiddleNames |->
        [FieldSpec EXCEPT !.min_length = {1}, !.max_length = {150}],
      Surname |->
        [FieldSpec EXCEPT
            !.mandatory = TRUE,
            !.min_length = {1},
            !.max_length = {150}],
      Sex |->
        [FieldSpec EXCEPT
            !.mandatory = TRUE,
            !.allow_minus2 = TRUE,
            !.allowed_values = {{<<"M">>, <<"F">>}}],
      DOB |->
        [FieldSpec EXCEPT !.type = {"date"}],
      NCN |->
        [FieldSpec EXCEPT
            !.mandatory = TRUE,
            !.allow_minus2 = TRUE,
            !.length = {5},
            !.pattern = {DigitsRe(5)}],
      CentreURN |->
        [FieldSpec EXCEPT
            !.mandatory = TRUE,
            !.allow_minus2 = TRUE,
            !.length = {6},
            !.pattern = {DigitsRe(6)}],
      LAESTAB |->
        [FieldSpec EXCEPT
            !.mandatory = TRUE,
            !.allow_minus2 = TRUE,
            !.length = {8}],
      CentreIdentifierOther |->
        [FieldSpec EXCEPT
            !.mandatory = TRUE,
            !.allow_minus2 = TRUE,
            !.min_length = {1},
            !.max_length = {15}],
      UKPRN |->
        [FieldSpec EXCEPT
            !.mandatory = TRUE,
            !.allow_minus2 = TRUE,
            !.length = {8},
            !.pattern = {DigitsRe(8)}],
      CentreName |->
        [FieldSpec EXCEPT !.min_length = {1}, !.max_length = {150}],
      CentreAddress1 |->
        [FieldSpec EXCEPT !.min_length = {1}, !.max_length = {150}],
      CentreAddress2 |->
        [FieldSpec EXCEPT !.min_length = {1}, !.max_length = {150}],
      CentreAddress3 |->
        [FieldSpec EXCEPT !.min_length = {1}, !.max_length = {150}],
      CentreAddress4 |->
        [FieldSpec EXCEPT !.min_length = {1}, !.max_length = {150}],
      CentrePostcode |->
        [FieldSpec EXCEPT
            !.mandatory = TRUE,
            !.allow_minus2 = TRUE,
            !.pattern = {CENTRE_POSTCODE_RE}],
      CentreType |->
        [FieldSpec EXCEPT
            !.mandatory = TRUE,
            !.allow_minus2 = TRUE,
            !.allowed_values = {{<<"1">>, <<"2">>, <<"3">>, <<"4">>, <<"5">>, <<"6">>, <<"7">>, <<"8">>, <<"9">>, <<"1","0">>, <<"1","1">>, <<"1","2">>, <<"1","3">>}}],
      QualificationNumberType |->
        [FieldSpec EXCEPT
            !.mandatory = TRUE,
            !.allowed_values = {{<<"Q","A","N">>, <<"O","t","h","e","r">>}}],
      QualificationNumber |->
        [FieldSpec EXCEPT
            !.mandatory = TRUE,
            !.min_length = {1},
            !.max_length = {10}],
      SpecificationCode |->
        [FieldSpec EXCEPT
            !.mandatory = TRUE,
            !.allow_minus2 = TRUE,
            !.min_length = {1},
            !.max_length = {20}],
      SpecificationTitle |->
        [FieldSpec EXCEPT
            !.mandatory = TRUE,
            !.min_length = {1},
            !.max_length = {250}],
      QualificationType |->
        [FieldSpec EXCEPT
            !.mandatory = TRUE,
            !.allowed_values = {QUALIFICATION_TYPE_VALUES}],
      ExamSeries |->
        [FieldSpec EXCEPT
            !.mandatory = TRUE,
            !.allow_minus2 = TRUE,
            !.pattern = {EXAM_SERIES_RE}],
      RegistrationDate |->
        [FieldSpec EXCEPT !.mandatory = TRUE, !.type = {"date"}],
      FirstEntryDate |->
        [FieldSpec EXCEPT !.type = {"date"}],
      AwardDate |->
        [FieldSpec EXCEPT !.type = {"date"}],
      QualificationGrade |->
        [FieldSpec EXCEPT
            !.allow_minus2 = TRUE,
            !.min_length = {1},
            !.max_length = {20}],
      PrivateCandidate |->
        [FieldSpec EXCEPT
            !.mandatory = TRUE,
            !.allow_minus2 = TRUE,
            !.allowed_values = {{<<"0">>, <<"1">>}}],
      PartialAbsence |->
        [FieldSpec EXCEPT
            !.mandatory = TRUE,
            !.allow_minus2 = TRUE,
            !.allowed_values = {{<<"0">>, <<"1">>}}] ]

\* Fields where -2 is explicitly allowed by the exclusions doc
EXCLUSION_MINUS2_FIELDS ==
    { "UKPRN", "UniqueCandidateIdentifier", "UniqueLearnerNumber",
      "UniquePupilNumber", "NCN", "CentreURN",
      "LAESTAB", "SpecificationCode", "ExamSeries",
      "QualificationGrade", "PrivateCandidate", "PartialAbsence" }

\* ------------------------------------------------------------------------
\* datetime.date: a date is its proleptic Gregorian ordinal
\* (date.toordinal(), 1 for 0001-01-01), so that dates compare and subtract
\* as integers.

\* The None that parse_date returns for "no date": no date has ordinal 0.
NoDate ==
    0

IsLeap(y) ==
    y % 4 = 0 /\ (y % 100 # 0 \/ y % 400 = 0)

DaysInMonth(y, m) ==
    IF m = 2 THEN (IF IsLeap(y) THEN 29 ELSE 28)
    ELSE IF m \in {4, 6, 9, 11} THEN 30 ELSE 31

DaysBeforeMonth(y, m) ==
    LET F[k \in 1..12] == IF k = 1 THEN 0 ELSE F[k - 1] + DaysInMonth(y, k - 1)
    IN  F[m]

\* date(y, m, d).toordinal()
Ordinal(y, m, d) ==
    LET p == y - 1
    IN  p * 365 + (p \div 4) - (p \div 100) + (p \div 400) + DaysBeforeMonth(y, m) + d

DigitVal(c) ==
    CHOOSE n \in 0..9 : <<"0", "1", "2", "3", "4", "5", "6", "7", "8", "9">>[n + 1] = c

\* int(s) for a string of digits
IntOf(s) ==
    LET F[i \in 0..Len(s)] == IF i = 0 THEN 0 ELSE 10 * F[i - 1] + DigitVal(s[i])
    IN  F[Len(s)]

\* strptime's %m: 1[0-2]|0[1-9]|[1-9]
IsMonthField(t) ==
    \/ Len(t) = 2 /\ t[1] = "1" /\ t[2] \in {"0", "1", "2"}
    \/ Len(t) = 2 /\ t[1] = "0" /\ t[2] \in Digit \ {"0"}
    \/ Len(t) = 1 /\ t[1] \in Digit \ {"0"}

\* strptime's %d: 3[0-1]|[1-2]\d|0[1-9]|[1-9]| [1-9]
IsDayField(t) ==
    \/ Len(t) = 2 /\ t[1] = "3" /\ t[2] \in {"0", "1"}
    \/ Len(t) = 2 /\ t[1] \in {"1", "2"} /\ t[2] \in Digit
    \/ Len(t) = 2 /\ t[1] \in {"0", " "} /\ t[2] \in Digit \ {"0"}
    \/ Len(t) = 1 /\ t[1] \in Digit \ {"0"}

\* strptime's %Y: \d\d\d\d
IsYearField(t) ==
    Len(t) = 4 /\ \A i \in 1..4 : t[i] \in Digit

\* date(y, m, d) of the three matched fields, NoDate where the constructor
\* raises ValueError (year 0, day past the end of the month)
DateOfFields(yt, mt, dt) ==
    LET y == IntOf(yt)
        m == IntOf(mt)
        d == IntOf(StripChars(dt, {" "}))
    IN  IF y >= 1 /\ d <= DaysInMonth(y, m) THEN Ordinal(y, m, d) ELSE NoDate

\* datetime.strptime(v, fmt).date() for the two formats of DATE_FORMATS,
\* NoDate for ValueError.  first, second, third are the fields in the
\* order of the format, sep its separator; the whole of v must be consumed.
Strptime(v, fmt) ==
    LET sep == IF fmt = "%Y-%m-%d" THEN "-" ELSE "/"
        seps == {i \in 1..Len(v) : v[i] = sep}
    IN  IF Cardinality(seps) # 2 THEN NoDate
        ELSE LET i == MinOf(seps)
                 j == MaxOf(seps)
                 first == SubSeq(v, 1, i - 1)
                 second == SubSeq(v, i + 1, j - 1)
                 third == SubSeq(v, j + 1, Len(v))
             IN  IF fmt = "%Y-%m-%d"
                 THEN IF IsYearField(first) /\ IsMonthField(second) /\ IsDayField(third)
                      THEN DateOfFields(first, second, third) ELSE NoDate
                 ELSE IF IsDayField(first) /\ IsMonthField(second) /\ IsYearField(third)
                      THEN DateOfFields(third, second, first) ELSE NoDate

DATE_FORMATS ==
    <<"%Y-%m-%d", "%d/%m/%Y">>

\* parse_date without the test for the sentinel dates: they parse as the
\* dates they spell
ParseDateWithoutSentinel(value) ==
    LET v == Strip(value)
        parsed == [k \in 1..2 |-> Strptime(v, DATE_FORMATS[k])]
    IN  IF v = <<>> THEN [dt |-> NoDate, is_sentinel |-> FALSE]
        ELSE IF parsed[1] # NoDate THEN [dt |-> parsed[1], is_sentinel |-> FALSE]
        ELSE [dt |-> parsed[2], is_sentinel |-> FALSE]

\* parse_date(value): (date_obj, is_sentinel)
parse_date(value) ==
    LET v == Strip(value)
        parsed == [k \in 1..2 |-> Strptime(v, DATE_FORMATS[k])]
    IN  IF v = <<>> THEN [dt |-> NoDate, is_sentinel |-> FALSE]
        ELSE IF v \in SENTINEL_DATES THEN [dt |-> NoDate, is_sentinel |-> TRUE]
        ELSE IF parsed[1] # NoDate THEN [dt |-> parsed[1], is_sentinel |-> FALSE]
        ELSE [dt |-> parsed[2], is_sentinel |-> FALSE]

\* ------------------------------------------------------------------------
\* Helpers

MINUS2 ==
    <<"-","2">>

\* The exclusions without the one for a blank Sex
ExclusionsWithoutSex(field, value, error_code) ==
    LET v == Strip(value)
    IN  \/ v = MINUS2 /\ field \in EXCLUSION_MINUS2_FIELDS
        \/ field = "QualificationNumber" /\ Contains(v, <<"/","x">>)
        \/ field = "MiddleNames" /\ v = <<>>

\* is_permitted_exclusion(field, value, error_code): the error is suppressed
is_permitted_exclusion(field, value, error_code) ==
    LET v == Strip(value)
    IN  \/ v = MINUS2 /\ field \in EXCLUSION_MINUS2_FIELDS
        \/ field = "QualificationNumber" /\ Contains(v, <<"/","x">>)
        \/ field = "MiddleNames" /\ v = <<>>
        \/ field = "Sex" /\ v = <<>>

\* One (error_code, message) pair of validate_field; the message is its
\* template, the formatted value being carried by the error's value.
Err(code, message) ==
    [code |-> code, message |-> message]

\* b and [x] or []
When(b, x) ==
    IF b THEN <<x>> ELSE <<>>

\* The date branch of validate_field (the value is neither blank nor -2)
DateFieldErrors(field, v, today) ==
    LET p == parse_date(v)
        age4 == 4 * (today - p.dt)    \* (today - dt).days / 365.25, times 1461
    IN  IF p.dt = NoDate /\ ~p.is_sentinel
        THEN <<Err("DATE_FORMAT", "Invalid date format")>>
        ELSE IF p.dt # NoDate
        THEN When(p.dt < Ordinal(1900, 1, 1),
                  Err("DATE_RANGE", "Date must be on or after 1900-01-01"))
             \o When(field = "DOB" /\ (age4 < 5 * 1461 \/ age4 > 80 * 1461),
                     Err("DATE_RANGE", "Age from DOB must be between 5 and 80 years"))
        ELSE <<>>

\* validate_field(field, value, record_type), with date.today() as today
validate_field(field, value, record_type, today) ==
    LET spec == FIELD_SPECS[field]
        v == Strip(value)
        is_blank == v = <<>>
        conditional_mandatory == {"FirstEntryDate", "AwardDate", "QualificationGrade"}
    IN  IF spec.mandatory /\ field \notin conditional_mandatory /\ is_blank
        THEN <<Err("MISSING", "Mandatory field is blank")>>
        ELSE IF is_blank THEN <<>>
        ELSE IF v = MINUS2 /\ spec.allow_minus2 THEN <<>>
        ELSE IF spec.type = {"date"} THEN DateFieldErrors(field, v, today)
        ELSE When(\E allowed \in spec.allowed_values : v \notin allowed,
                  Err("VALUE", "Value not in allowed set"))
             \o When(\E pattern \in spec.pattern : ~ReMatch(pattern, v),
                     Err("PATTERN", "Value does not match pattern"))
             \o When(\E n \in spec.length : Len(v) # n,
                     Err("LENGTH", "Value must be exactly length characters"))
             \o When(\E n \in spec.min_length : Len(v) < n,
                     Err("MIN_LENGTH", "Value must be at least min_length characters"))
             \o When(\E n \in spec.max_length : Len(v) > n,
                     Err("MAX_LENGTH", "Value must be at most max_length characters"))

\* The dataclass ValidationError
ValidationError(row_number, field, error_code, message, value) ==
    [row_number |-> row_number, field |-> field, error_code |-> error_code,
     message |-> message, value |-> value]

\* The conditional-mandatory rule applied to Result rows only
MissingIfBlankResultOnly(row, row_number, record_type, fname) ==
    When(record_type = <<"R","e","s","u","l","t">> /\ Strip(row[fname]) = <<>>,
         ValidationError(row_number, fname, "MISSING",
                         "fname is mandatory for RecordType=record_type.", row[fname]))

\* The conditional-mandatory rule of validate_record_level for one field
MissingIfBlank(row, row_number, record_type, fname) ==
    When(record_type \in {<<"R","e","s","u","l","t">>, <<"A","m","e","n","d","m","e","n","t">>} /\ Strip(row[fname]) = <<>>,
         ValidationError(row_number, fname, "MISSING",
                         "fname is mandatory for RecordType=record_type.", row[fname]))

\* The Entry rule for the grade, applied only to a grade that is not blank
EntryGradeRuleNonBlank(row, row_number, record_type) ==
    LET qg == Strip(row["QualificationGrade"])
    IN  When(record_type = <<"E","n","t","r","y">> /\ qg # <<>> /\ qg # MINUS2,
             ValidationError(row_number, "QualificationGrade", "ENTRY_RULE",
                             "For RecordType=Entry, QualificationGrade must be '-2'.", qg))

\* The Entry rule of validate_record_level for the grade
EntryGradeRule(row, row_number, record_type) ==
    LET qg == Strip(row["QualificationGrade"])
    IN  When(record_type = <<"E","n","t","r","y">> /\ qg # MINUS2,
             ValidationError(row_number, "QualificationGrade", "ENTRY_RULE",
                             "For RecordType=Entry, QualificationGrade must be '-2'.", qg))

\* The Entry rule of validate_record_level for one of the two date fields
EntryDateRule(row, row_number, record_type, fname) ==
    When(record_type = <<"E","n","t","r","y">> /\ Strip(row[fname]) \notin SENTINEL_DATES,
         ValidationError(row_number, fname, "ENTRY_RULE",
                         "For RecordType=Entry, fname must be 2999-12-31 or 31/12/2999.",
                         Strip(row[fname])))

\* The two ordering rules among the Result / Amendment date rules, with only
\* the first that fails reported (an elif for the second if)
DateOrderRulesFirstOnly(row_number, reg_dt, fe_dt, aw_dt, aw_str) ==
    IF aw_dt # NoDate /\ fe_dt # NoDate /\ aw_dt < fe_dt
    THEN <<ValidationError(row_number, "AwardDate", "DATE_ORDER",
                           "AwardDate must be on or after FirstEntryDate.", aw_str)>>
    ELSE When(aw_dt # NoDate /\ reg_dt # NoDate /\ aw_dt < reg_dt,
              ValidationError(row_number, "AwardDate", "DATE_ORDER",
                              "AwardDate must be on or after RegistrationDate.", aw_str))

\* The same with the first comparison the wrong way round
DateOrderRulesSwapped(row_number, reg_dt, fe_dt, aw_dt, aw_str) ==
    When(aw_dt # NoDate /\ fe_dt # NoDate /\ aw_dt > fe_dt,
         ValidationError(row_number, "AwardDate", "DATE_ORDER",
                         "AwardDate must be on or after FirstEntryDate.", aw_str))
    \o When(aw_dt # NoDate /\ reg_dt # NoDate /\ aw_dt < reg_dt,
            ValidationError(row_number, "AwardDate", "DATE_ORDER",
                            "AwardDate must be on or after RegistrationDate.", aw_str))

\* The two ordering rules among the Result / Amendment date rules
DateOrderRules(row_number, reg_dt, fe_dt, aw_dt, aw_str) ==
    When(aw_dt # NoDate /\ fe_dt # NoDate /\ aw_dt < fe_dt,
         ValidationError(row_number, "AwardDate", "DATE_ORDER",
                         "AwardDate must be on or after FirstEntryDate.", aw_str))
    \o When(aw_dt # NoDate /\ reg_dt # NoDate /\ aw_dt < reg_dt,
            ValidationError(row_number, "AwardDate", "DATE_ORDER",
                            "AwardDate must be on or after RegistrationDate.", aw_str))

\* The Result / Amendment date rules of validate_record_level
ResultDateRules(row, row_number, today) ==
    LET reg_str == Strip(row["RegistrationDate"])
        fe_str == Strip(row["FirstEntryDate"])
        aw_str == Strip(row["AwardDate"])
        reg == parse_date(reg_str)
        fe == parse_date(fe_str)
        aw == parse_date(aw_str)
        qg == Strip(row["QualificationGrade"])
    IN  When(fe.is_sentinel,
             ValidationError(row_number, "FirstEntryDate", "SENTINEL_NOT_ALLOWED",
                             "FirstEntryDate sentinel allowed only when RecordType=Entry.",
                             fe_str))
        \o When(aw.is_sentinel,
                ValidationError(row_number, "AwardDate", "SENTINEL_NOT_ALLOWED",
                                "AwardDate sentinel allowed only when RecordType=Entry.",
                                aw_str))
        \o When(fe.dt # NoDate /\ fe.dt > today,
                ValidationError(row_number, "FirstEntryDate", "DATE_FUTURE",
                                "FirstEntryDate must not be in the future for Result/Amendment.",
                                fe_str))
        \o When(aw.dt # NoDate /\ aw.dt > today,
                ValidationError(row_number, "AwardDate", "DATE_FUTURE",
                                "AwardDate must not be in the future for Result/Amendment.",
                                aw_str))
        \o DateOrderRules(row_number, reg.dt, fe.dt, aw.dt, aw_str)
        \o When(qg = MINUS2,
                ValidationError(row_number, "QualificationGrade", "RESULT_RULE",
                                "For Result/Amendment, QualificationGrade cannot be '-2'.",
                                qg))

\* The record-level rules with their errors passed through
\* is_permitted_exclusion like those of the field loop
RecordLevelWithExclusions(row, row_number, today) ==
    LET record_type == Strip(row["RecordType"])
        id_fields == {"UniqueCandidateIdentifier", "UniqueLearnerNumber",
                      "UniquePupilNumber", "CandidateIdentifierOther"}
        found ==
            When(\A f \in id_fields : Strip(row[f]) = <<>>,
                 ValidationError(row_number, "LearnerIdentifierGroup", "GROUP_RULE",
                                 "At least one learner identifier (UCI/ULN/UPN/Other) must be supplied.",
                                 <<>>))
            \o MissingIfBlank(row, row_number, record_type, "FirstEntryDate")
            \o MissingIfBlank(row, row_number, record_type, "AwardDate")
            \o MissingIfBlank(row, row_number, record_type, "QualificationGrade")
            \o EntryGradeRule(row, row_number, record_type)
            \o EntryDateRule(row, row_number, record_type, "FirstEntryDate")
            \o EntryDateRule(row, row_number, record_type, "AwardDate")
            \o (IF record_type \in {<<"R","e","s","u","l","t">>, <<"A","m","e","n","d","m","e","n","t">>}
                THEN ResultDateRules(row, row_number, today) ELSE <<>>)
    IN  SelectSeq(found, LAMBDA e : e.field = "LearnerIdentifierGroup"
                                   \/ ~is_permitted_exclusion(e.field, row[e.field],
                                                              e.error_code))

\* validate_record_level(row, row_number), with date.today() as today
validate_record_level(row, row_number, today) ==
    LET record_type == Strip(row["RecordType"])
        id_fields == {"UniqueCandidateIdentifier", "UniqueLearnerNumber",
                      "UniquePupilNumber", "CandidateIdentifierOther"}
    IN  When(\A f \in id_fields : Strip(row[f]) = <<>>,
             ValidationError(row_number, "LearnerIdentifierGroup", "GROUP_RULE",
                             "At least one learner identifier (UCI/ULN/UPN/Other) must be supplied.",
                             <<>>))
        \o MissingIfBlank(row, row_number, record_type, "FirstEntryDate")
        \o MissingIfBlank(row, row_number, record_type, "AwardDate")
        \o MissingIfBlank(row, row_number, record_type, "QualificationGrade")
        \o EntryGradeRule(row, row_number, record_type)
        \o EntryDateRule(row, row_number, record_type, "FirstEntryDate")
        \o EntryDateRule(row, row_number, record_type, "AwardDate")
        \o (IF record_type \in {<<"R","e","s","u","l","t">>, <<"A","m","e","n","d","m","e","n","t">>}
            THEN ResultDateRules(row, row_number, today) ELSE <<>>)

\* ------------------------------------------------------------------------
\* csv.reader over the submission's physical lines.  A line is the cells
\* the reader finds on it and whether the line ends inside a quoted cell
\* that no quote has closed (open): the reader then adds the line break to
\* that cell and goes on with the next line, whose first cell continues it.
\* A line of no cells is an empty line.

Line(cells, open) ==
    [cells |-> cells, open |-> open]

\* The record the reader holds after taking line l into the unfinished
\* record rec (rec.open: the reader is inside a quoted cell)
TakeLine(rec, l) ==
    LET n == Len(rec.cells)
        joined == rec.cells[n] \o <<"LF">> \o (IF l.cells = <<>> THEN <<>> ELSE l.cells[1])
    IN  IF l.cells = <<>>
        THEN [cells |-> [rec.cells EXCEPT ![n] = joined], open |-> TRUE]
        ELSE [cells |-> [rec.cells EXCEPT ![n] = joined] \o Tail(l.cells),
              open |-> l.open]

\* The reader going on from line k with the unfinished record rec
RECURSIVE ReadOn(_, _, _)
ReadOn(lines, rec, k) ==
    IF rec.open /\ k < Len(lines)
    THEN ReadOn(lines, TakeLine(rec, lines[k + 1]), k + 1)
    ELSE [row |-> rec.cells, line_num |-> k]

\* next(reader) with line_num lines already read (and more to come): the
\* record's cells and the reader's line_num afterwards.  At the end of the
\* input an open quoted cell is returned as it stands (the reader is not
\* strict).
NextRecord(lines, line_num) ==
    ReadOn(lines, lines[line_num + 1], line_num + 1)

\* row + [""] * (34 - len(row)), or row[:34]
Normalize(row) ==
    LET n == Len(EXPECTED_COLUMNS)
    IN  [i \in 1..n |-> IF i <= Len(row) THEN row[i] ELSE <<>>]

\* dict(zip(EXPECTED_COLUMNS, row)) for a row of 34 cells
RowDict(row) ==
    [f \in {EXPECTED_COLUMNS[i] : i \in 1..Len(EXPECTED_COLUMNS)} |->
        row[CHOOSE i \in 1..Len(EXPECTED_COLUMNS) : EXPECTED_COLUMNS[i] = f]]

\* not any(cell.strip() for cell in row)
IsBlankRow(row) ==
    \A i \in 1..Len(row) : Strip(row[i]) = <<>>

\* [h.strip("\ufeff ").strip() for h in header]
NormalizeHeader(header) ==
    [i \in 1..Len(header) |-> Strip(StripChars(header[i], {"BOM", " "}))]

\* The errors of one field of a row: validate_field's, less those
\* is_permitted_exclusion suppresses
FieldErrors(row_dict, row_idx, field_name, record_type, today) ==
    LET val == row_dict[field_name]
        field_errors == validate_field(field_name, val, record_type, today)
        kept == SelectSeq(field_errors,
                          LAMBDA e : ~is_permitted_exclusion(field_name, val, e.code))
    IN  [k \in 1..Len(kept) |->
            ValidationError(row_idx, field_name, kept[k].code, kept[k].message, val)]

\* The field-level loop run over the columns from the last to the first
AllFieldErrorsReversed(row_dict, row_idx, record_type, today) ==
    LET n == Len(EXPECTED_COLUMNS)
        F[i \in 0..n] ==
            IF i = 0 THEN <<>>
            ELSE F[i - 1] \o FieldErrors(row_dict, row_idx, EXPECTED_COLUMNS[n + 1 - i],
                                         record_type, today)
    IN  F[n]

\* The field-level loop of validate_csv_stream over EXPECTED_COLUMNS
AllFieldErrors(row_dict, row_idx, record_type, today) ==
    LET F[i \in 0..Len(EXPECTED_COLUMNS)] ==
            IF i = 0 THEN <<>>
            ELSE F[i - 1] \o FieldErrors(row_dict, row_idx, EXPECTED_COLUMNS[i],
                                         record_type, today)
    IN  F[Len(EXPECTED_COLUMNS)]

\* ------------------------------------------------------------------------
\* validate_csv_text as a state machine.  A submission is the sequence of
\* its physical lines; pending holds the submissions still to be validated,
\* one call after the other; calls records every call that has returned.

VARIABLES
    pending,      \* the submissions not yet validated, in order
    today,        \* date.today(), as an ordinal
    pc,           \* "idle": no call is running; "rows": in the loop over the reader
    lines,        \* the running call's submission (the StringIO)
    line_num,     \* reader.line_num: the physical lines the reader has consumed
    errors,       \* the running call's errors list
    seen_rows,    \* the running call's seen_rows set
    row_idx,      \* the running call's row_idx
    calls         \* the calls that returned: [text, errors]

vars == <<pending, today, pc, lines, line_num, errors, seen_rows, row_idx, calls>>

ExpectedHeader ==
    [i \in 1..Len(EXPECTED_COLUMNS) |-> ColumnText[EXPECTED_COLUMNS[i]]]

\* The header check with the columns compared as a set, in any order
HeaderErrorsAnyOrder(header) ==
    LET names(h) == {h[i] : i \in 1..Len(h)}
    IN  When(names(NormalizeHeader(header)) # names(ExpectedHeader),
             ValidationError(1, "*HEADER*", "HEADER_MISMATCH",
                             "Header row does not match expected VTQ specification.", <<>>))

\* The errors list after the header check of validate_csv_stream
HeaderErrors(header) ==
    When(NormalizeHeader(header) # ExpectedHeader,
         ValidationError(1, "*HEADER*", "HEADER_MISMATCH",
                         "Header row does not match expected VTQ specification.", <<>>))

\* seen_rows carried over from the call before
StaleSeenRows(previous) ==
    previous

\* seen_rows as validate_csv_stream creates it
FreshSeenRows(previous) ==
    {}

\* The duplicate check on the row as read, before it is padded or cut
DuplicateErrorRaw(row, idx, seen) ==
    When(row \in seen,
         ValidationError(idx, "*ROW*", "DUPLICATE_ROW",
                         "Duplicate row within submission.", <<>>))

\* The duplicate check of the loop: the tuple of the 34 cells against
\* seen_rows
DuplicateError(row, idx, seen) ==
    When(Normalize(row) \in seen,
         ValidationError(idx, "*ROW*", "DUPLICATE_ROW",
                         "Duplicate row within submission.", <<>>))

\* A loop iteration that goes on to the next row once it has reported a
\* duplicate
RowErrorsUnlessDuplicate(row, idx, seen, day) ==
    LET row_dict == RowDict(Normalize(row))
        record_type == Strip(row_dict["RecordType"])
    IN  When(Len(row) # Len(EXPECTED_COLUMNS),
             ValidationError(idx, "*ROW*", "COLUMN_COUNT",
                             "Row must contain 34 columns.", <<>>))
        \o DuplicateError(row, idx, seen)
        \o (IF Normalize(row) \in seen THEN <<>>
            ELSE AllFieldErrors(row_dict, idx, record_type, day)
                 \o validate_record_level(row_dict, idx, day))

\* What one iteration of the loop appends to errors for a row that is not
\* blank: COLUMN_COUNT, DUPLICATE_ROW, the field-level and the record-level
\* errors
RowErrors(row, idx, seen, day) ==
    LET row_dict == RowDict(Normalize(row))
        record_type == Strip(row_dict["RecordType"])
    IN  When(Len(row) # Len(EXPECTED_COLUMNS),
             ValidationError(idx, "*ROW*", "COLUMN_COUNT",
                             "Row must contain 34 columns.", <<>>))
        \o DuplicateError(row, idx, seen)
        \o AllFieldErrors(row_dict, idx, record_type, day)
        \o validate_record_level(row_dict, idx, day)

\* validate_csv_text on an input of no line at all: next(reader) raises
\* StopIteration and the call returns the EMPTY error
ValidateEmpty ==
    /\ pc = "idle"
    /\ pending # <<>>
    /\ Head(pending) = <<>>
    /\ pending' = Tail(pending)
    /\ calls' = Append(calls,
                       [text |-> <<>>,
                        errors |-> <<ValidationError(1, "*FILE*", "EMPTY",
                                                     "File is empty.", <<>>)>>])
    /\ UNCHANGED <<today, pc, lines, line_num, errors, seen_rows, row_idx>>

\* validate_csv_text up to the loop: the reader is created, the header
\* record read and compared, seen_rows and row_idx initialised
ReadHeader ==
    /\ pc = "idle"
    /\ pending # <<>>
    /\ Head(pending) # <<>>
    /\ LET header == NextRecord(Head(pending), 0)
       IN  /\ lines' = Head(pending)
           /\ line_num' = header.line_num
           /\ errors' = HeaderErrors(header.row)
    /\ pending' = Tail(pending)
    /\ seen_rows' = FreshSeenRows(seen_rows)
    /\ row_idx' = 1
    /\ pc' = "rows"
    /\ UNCHANGED <<today, calls>>

\* row_idx counting only the records that are not skipped
NextRowIdxNonBlank(idx, row) ==
    IF IsBlankRow(row) THEN idx ELSE idx + 1

\* row_idx after the loop has taken one more record from the reader
NextRowIdx(idx, row) ==
    idx + 1

\* A loop iteration that tests for a blank record only after the column
\* count and the duplicate bookkeeping
SkipBlankRowLate ==
    /\ pc = "rows"
    /\ line_num < Len(lines)
    /\ LET rec == NextRecord(lines, line_num)
       IN  /\ IsBlankRow(rec.row)
           /\ line_num' = rec.line_num
           /\ row_idx' = NextRowIdx(row_idx, rec.row)
           /\ errors' = errors \o When(Len(rec.row) # Len(EXPECTED_COLUMNS),
                                       ValidationError(row_idx', "*ROW*", "COLUMN_COUNT",
                                                       "Row must contain 34 columns.", <<>>))
           /\ seen_rows' = seen_rows \cup {Normalize(rec.row)}
    /\ UNCHANGED <<pending, today, pc, lines, calls>>

\* A loop iteration on a record whose cells are all blank: continue
SkipBlankRow ==
    /\ pc = "rows"
    /\ line_num < Len(lines)
    /\ LET rec == NextRecord(lines, line_num)
       IN  /\ IsBlankRow(rec.row)
           /\ line_num' = rec.line_num
           /\ row_idx' = NextRowIdx(row_idx, rec.row)
    /\ UNCHANGED <<pending, today, pc, lines, errors, seen_rows, calls>>

\* A loop iteration on any other record
ValidateRow ==
    /\ pc = "rows"
    /\ line_num < Len(lines)
    /\ LET rec == NextRecord(lines, line_num)
       IN  /\ ~IsBlankRow(rec.row)
           /\ line_num' = rec.line_num
           /\ row_idx' = NextRowIdx(row_idx, rec.row)
           /\ errors' = errors \o RowErrors(rec.row, row_idx', seen_rows, today)
           /\ seen_rows' = seen_rows \cup {Normalize(rec.row)}
    /\ UNCHANGED <<pending, today, pc, lines, calls>>

\* The reader is exhausted: return errors
Return ==
    /\ pc = "rows"
    /\ line_num = Len(lines)
    /\ calls' = Append(calls, [text |-> lines, errors |-> errors])
    /\ pc' = "idle"
    /\ UNCHANGED <<pending, today, lines, line_num, errors, seen_rows, row_idx>>

Next ==
    \/ ValidateEmpty
    \/ ReadHeader
    \/ SkipBlankRow
    \/ ValidateRow
    \/ Return

\* ------------------------------------------------------------------------
\* The submissions the model validates

\* The longest submission of the row-by-row pool, in data lines
MaxLines ==
    3

\* The most calls made one after the other
MaxCalls ==
    2

\* c * n
Repeat(c, n) ==
    [i \in 1..n |-> c]

ColumnIndex(f) ==
    CHOOSE i \in 1..Len(EXPECTED_COLUMNS) : EXPECTED_COLUMNS[i] = f

\* The row with the cell of field f replaced by v
With(row, f, v) ==
    [row EXCEPT ![ColumnIndex(f)] = v]

\* An Entry row that validates without error
EntryRow ==
    << <<"E","n","t","r","y">>, <<"A","1","2","3","4","5","6","7","8","9","0","1","2">>, <<"1","2","3","4","5","6","7","8","9","0">>, <<"B","1","2","3","4","5","6","7","8","9","0","1","2">>, <<"X","1">>,
       <<"A","l">>, <<>>, <<"N","g">>, <<"F">>, <<"2","0","1","0","-","0","5","-","0","1">>,
       <<"1","2","3","4","5">>, <<"1","2","3","4","5","6">>, <<"1","2","3","4","5","6","7","8">>, <<"C","1">>, <<"1","2","3","4","5","6","7","8">>,
       <<"S","c","h">>, <<>>, <<>>, <<>>, <<>>,
       <<"A","B","1"," ","2","C","D">>, <<"1","3">>, <<"Q","A","N">>, <<"6","0","0","1","2","3","4","5">>, <<"S","C","1">>,
       <<"T">>, <<"Q","C","F">>, <<"J","u","n","e"," ","2","0","2","9">>, <<"2","0","2","5","-","0","9","-","0","1">>, <<"2","9","9","9","-","1","2","-","3","1">>,
       <<"3","1","/","1","2","/","2","9","9","9">>, <<"-","2">>, <<"0">>, <<"1">> >>

\* A Result row that validates without error once its dates are past
ResultRow ==
    With(With(With(With(EntryRow, "RecordType", <<"R","e","s","u","l","t">>),
                   "FirstEntryDate", <<"2","0","2","6","-","0","1","-","1","0">>),
              "AwardDate", <<"0","1","/","0","6","/","2","0","2","6">>),
         "QualificationGrade", <<"A">>)

RecordTypePool ==
    { <<"E","n","t","r","y">>, <<"R","e","s","u","l","t">>, <<"A","m","e","n","d","m","e","n","t">>, <<"D","e","l","e","t","i","o","n">>, <<>>, <<" ","E","n","t","r","y"," ">>, <<"r","e","s","u","l","t">>,
      <<" ","A","m","e","n","d","m","e","n","t"," ">> }

\* The base row of a record type: the dates and grade its rules ask for
BaseRow(rt) ==
    With(IF Strip(rt) \in {<<"R","e","s","u","l","t">>, <<"A","m","e","n","d","m","e","n","t">>} THEN ResultRow ELSE EntryRow,
         "RecordType", rt)

\* Values tried in every field, and more for some
ValuePool(f) ==
    { <<>>, <<" ">>, <<"-","2">>, <<" ","-","2"," ">>, <<"A","B","C">> }
    \cup (CASE f = "DOB" ->
                { <<"2","0","2","4","-","0","1","-","0","1">>, <<"1","8","9","9","-","1","2","-","3","1">>, <<"1","9","4","0","-","0","1","-","0","1">>, <<"3","1","/","1","2","/","2","9","9","9">>,
                  <<"2","0","1","0","-","0","2","-","3","0">>, <<"1","/","5","/","2","0","1","0">>, <<"2","0","1","0","-","0","5","-"," ","1">>, <<"0","0","0","0","-","0","1","-","0","1">> }
            [] f = "QualificationNumber" -> { <<"6","0","0","/","1","2","3","4","/","x">>, <<"6","0","0","/","1","2","3","4","5","6","7","8","/","x">> }
            [] f = "QualificationGrade" -> { Repeat("A", 21) }
            [] f = "FirstName" -> { Repeat("a", 150), Repeat("a", 151) }
            [] f = "CentrePostcode" ->
                { <<"B","F","P","O"," ","1","2","3">>, <<"D","0","2"," ","A","F","3","0">>, <<"A","B","1","2","C","D">>, <<"A","B","1"," ","2","C","D","E">>, <<"a","b","1"," ","2","c","d">> }
            [] f = "CentreType" -> { <<"1">>, <<"0","1">>, <<"1","4">> }
            [] f = "ExamSeries" -> { <<"J","u","n","e"," ","2","9">>, <<"j","u","n","e"," ","2","0","2","9">>, <<"M","a","y"," "," ","2","0","2","9">> }
            [] f = "RegistrationDate" -> { <<"2","9","9","9","-","1","2","-","3","1">>, <<"2","0","2","5","-","9","-","1">> }
            [] f = "AwardDate" -> { <<" ","3","1","/","1","2","/","2","9","9","9"," ">> }
            [] f = "UniqueLearnerNumber" -> { <<"1","2","3","4","5","6","7","8","9">>, <<"1","2","3","4","5","6","7","8","9","0","1">>, <<"1","2","3","4","5","6","7","8","9","A">> }
            [] OTHER -> {})

\* (RegistrationDate, FirstEntryDate, AwardDate)
DatePool ==
    { << <<"2","0","3","0","-","0","1","-","0","1">>, <<"2","0","2","9","-","0","7","-","0","1">>, <<"2","0","2","9","-","0","6","-","0","1">> >>,
      << <<"2","0","2","5","-","0","9","-","0","1">>, <<"2","0","2","6","-","0","1","-","1","0">>, <<"2","0","2","6","-","0","6","-","0","1">> >>,
      << <<"2","0","2","5","-","0","9","-","0","1">>, <<"0","1","/","0","7","/","2","0","2","6">>, <<" ","2","0","2","6","-","0","6","-","0","1"," ">> >>,
      << <<"2","0","2","5","-","0","9","-","0","1">>, <<"2","0","2","6","-","0","6","-","0","1">>, <<"2","0","2","6","-","0","6","-","0","1">> >>,
      << <<"2","0","2","5","-","0","9","-","0","1">>, <<"2","9","9","9","-","1","2","-","3","1">>, <<"2","0","2","6","-","0","6","-","0","1">> >>,
      << <<"2","0","2","5","-","0","9","-","0","1">>, <<"2","0","2","6","-","0","1","-","1","0">>, <<"3","1","/","1","2","/","2","9","9","9">> >>,
      << <<"2","0","2","5","-","0","9","-","0","1">>, <<"3","1","/","1","2","/","2","9","9","9">>, <<"2","9","9","9","-","1","2","-","3","1">> >>,
      << <<"2","9","9","9","-","1","2","-","3","1">>, <<"2","0","2","6","-","0","1","-","1","0">>, <<"2","0","2","6","-","0","1","-","0","5">> >>,
      << <<"2","0","2","5","-","0","9","-","0","1">>, <<>>, <<" ">> >>,
      << <<"2","0","2","5","-","0","9","-","0","1">>, <<"2","0","2","6","-","1","3","-","0","1">>, <<"2","0","2","6","-","0","6","-","0","1">> >>,
      << <<"2","0","2","7","-","0","1","-","0","1">>, <<"2","0","2","6","-","0","1","-","1","0">>, <<"2","0","2","6","-","0","6","-","0","1">> >> }

GradePool ==
    { <<"-","2">>, <<" ","-","2"," ">>, <<>>, <<"A">>, <<"A","B","C">> }

WithDates(row, d) ==
    With(With(With(row, "RegistrationDate", d[1]), "FirstEntryDate", d[2]), "AwardDate", d[3])

\* Rows with errors in several columns and at record level
MessyRows ==
    { With(With(With(With(With(With(BaseRow(rt), "UniqueLearnerNumber", <<"A","B","C">>),
                               "DOB", <<"2","0","1","0","-","0","2","-","3","0">>),
                          "FirstEntryDate", fe),
                     "AwardDate", <<"2","0","2","5","-","0","1","-","0","1">>),
                "QualificationGrade", g),
           "PartialAbsence", <<"2">>) :
        rt \in RecordTypePool, fe \in { <<"2","9","9","9","-","1","2","-","3","1">>, <<"2","0","2","6","-","0","1","-","1","0">>, <<>> },
        g \in { <<"-","2">>, <<"A">> } }

\* Rows of 34 cells: every record type with one cell replaced, and every
\* record type with every triple of dates and every grade
FieldRows ==
    { With(BaseRow(rt), EXPECTED_COLUMNS[i], v) :
        rt \in RecordTypePool,
        <<i, v>> \in UNION {{<<i, v>> : v \in ValuePool(EXPECTED_COLUMNS[i])}
                            : i \in 2..Len(EXPECTED_COLUMNS)} }
    \cup { With(WithDates(BaseRow(rt), d), "QualificationGrade", g) :
             rt \in RecordTypePool, d \in DatePool, g \in GradePool }
    \cup { [i \in 1..Len(EXPECTED_COLUMNS) |->
              IF EXPECTED_COLUMNS[i] \in EXCLUSION_MINUS2_FIELDS THEN m ELSE BaseRow(rt)[i]] :
             rt \in RecordTypePool, m \in { <<"-","2">>, <<"-","2"," ">> } }
    \cup MessyRows

HeaderLine ==
    Line(ExpectedHeader, FALSE)

\* Header rows: as specified; with a byte-order mark and padding; with
\* CentrePostcode and CentreType swapped; without its last column; with a
\* byte-order mark behind a tab; and one whose last cell is quoted and
\* closed on the next physical line
HeaderPool ==
    LET n == Len(EXPECTED_COLUMNS)
        e == ExpectedHeader
    IN  { <<HeaderLine>>,
          <<Line([e EXCEPT ![1] = <<"BOM", " ">> \o e[1], ![n] = e[n] \o <<" ", "TAB">>], FALSE)>>,
          <<Line([e EXCEPT ![21] = e[22], ![22] = e[21]], FALSE)>>,
          <<Line(SubSeq(e, 1, n - 1), FALSE)>>,
          <<Line([e EXCEPT ![1] = <<"TAB", "BOM">> \o e[1]], FALSE)>>,
          <<Line(e, TRUE), Line(<< <<>> >>, FALSE)>> }

\* Data lines for the submissions of several rows: a valid row; the same
\* with a 35th cell; an empty line; a row of blank cells; a row whose quoted
\* last cell runs on to the next line
LinePool ==
    { Line(EntryRow, FALSE),
      Line(EntryRow \o << <<"x">> >>, FALSE),
      Line(<<>>, FALSE),
      Line(<< <<" ">>, <<>>, <<"TAB">> >>, FALSE),
      Line(EntryRow, TRUE) }

\* A Result row cut to 33 cells, and 34 blank cells with a 35th that is not
ShortRow ==
    Line(SubSeq(ResultRow, 1, 33), FALSE)

BlankButLast ==
    Line(Repeat(<<>>, 34) \o << <<"x">> >>, FALSE)

SeqsUpTo(S, n) ==
    UNION {[1..k -> S] : k \in 0..n}

\* Submissions of one data row under the specified header
FieldTexts ==
    { <<HeaderLine, Line(row, FALSE)>> : row \in FieldRows }

\* Submissions of up to MaxLines data lines under the specified header
PipelineTexts ==
    { <<HeaderLine>> \o data : data \in SeqsUpTo(LinePool, MaxLines) }

\* Submissions under every header of HeaderPool
HeaderTexts ==
    { header \o data :
        header \in HeaderPool,
        data \in { <<>>, <<ShortRow>>, <<Line(<<>>, FALSE), ShortRow>> } }

\* A Result row with blank Sex, MiddleNames, NCN and RegistrationDate cells
BlankCellsRow ==
    With(With(With(With(ResultRow, "Sex", <<" ">>), "MiddleNames", <<"TAB">>),
              "NCN", <<>>),
         "RegistrationDate", <<" ", "TAB">>)

\* Repeated rows that are short or blank but for a cell that is cut off,
\* the row of blank cells, and a short row repeated under a short header
ExtraTexts ==
    { <<HeaderLine, Line(BlankCellsRow, FALSE)>>,
      <<Line(SubSeq(ExpectedHeader, 1, 33), FALSE), ShortRow, ShortRow>>,
      <<HeaderLine, ShortRow, ShortRow>>,
      <<HeaderLine, BlankButLast, Line(Repeat(<<>>, 34), FALSE), BlankButLast>>,
      <<HeaderLine, Line(Repeat(<<>>, 35), FALSE), BlankButLast>>,
      <<HeaderLine, ShortRow, Line(SubSeq(ResultRow, 1, 33) \o << <<>> >>, FALSE)>> }

\* Submissions validated again and again: the empty text, a duplicated row,
\* a single row, a mismatched header
CallTexts ==
    { <<>>,
      <<HeaderLine, Line(EntryRow, FALSE), Line(EntryRow, FALSE)>>,
      <<HeaderLine, Line(EntryRow, FALSE)>>,
      <<Line(SubSeq(ExpectedHeader, 1, 33), FALSE), ShortRow>> }

Queues ==
    { <<text>> : text \in FieldTexts \cup PipelineTexts \cup HeaderTexts \cup ExtraTexts }
    \cup (SeqsUpTo(CallTexts, MaxCalls) \ {<<>>})

TodayPool ==
    { Ordinal(2026, 11, 5), Ordinal(2031, 6, 1) }

Init ==
    /\ pending \in Queues
    /\ today \in TodayPool
    /\ pc = "idle"
    /\ lines = <<>>
    /\ line_num = 0
    /\ errors = <<>>
    /\ seen_rows = {}
    /\ row_idx = 0
    /\ calls = <<>>

Spec ==
    Init /\ [][Next]_vars

\* ------------------------------------------------------------------------
\* Properties of the returned error list.  They are read off the call that
\* has just returned: its text and its errors.

\* The records the reader yields from a text, each with the physical lines
\* it spans; record 1 is the header row, record k the row numbered k
RECURSIVE RecordsFrom(_, _)
RecordsFrom(text, n) ==
    IF n >= Len(text) THEN <<>>
    ELSE LET r == NextRecord(text, n)
         IN  <<[row |-> r.row, first |-> n + 1, last |-> r.line_num]>>
             \o RecordsFrom(text, r.line_num)

Records(text) ==
    RecordsFrom(text, 0)

Returned ==
    pc = "idle" /\ calls # <<>>

LastCall ==
    calls[Len(calls)]

\* The cell of field f in a record, padded or cut to the 34 columns
Cell(rec, f) ==
    Normalize(rec.row)[ColumnIndex(f)]

\* The positions in errs of the errors of row k and field f with a code in codes
ErrorsAt(errs, k, f, codes) ==
    {i \in 1..Len(errs) : /\ errs[i].row_number = k
                          /\ errs[i].field = f
                          /\ errs[i].error_code \in codes}

\* The cell reads -2 between any blanks
IsPaddedMinus2(cell) ==
    \E i \in 1..(Len(cell) - 1) :
        /\ cell[i] = "-" /\ cell[i + 1] = "2"
        /\ \A j \in (1..Len(cell)) \ {i, i + 1} : cell[j] \in Whitespace

Minus2Fields ==
    {"UKPRN", "UniqueCandidateIdentifier", "UniqueLearnerNumber", "UniquePupilNumber",
     "NCN", "CentreURN", "LAESTAB", "SpecificationCode", "ExamSeries",
     "QualificationGrade", "PrivateCandidate", "PartialAbsence"}

ShapeCodes ==
    {"VALUE", "PATTERN", "LENGTH", "MIN_LENGTH", "MAX_LENGTH"}

\* C1: in every returned list, a cell of one of the 12 -2-permitted fields
\* that reads -2 once trimmed has no VALUE, PATTERN, LENGTH, MIN_LENGTH or
\* MAX_LENGTH error for its row and field, whatever the rest of the row is.
C1_Minus2NeverRejected ==
    Returned =>
        LET recs == Records(LastCall.text)
        IN  \A k \in 2..Len(recs) : \A f \in Minus2Fields :
                IsPaddedMinus2(Cell(recs[k], f))
                    => ErrorsAt(LastCall.errors, k, f, ShapeCodes) = {}

\* A call has returned for a Result row whose LAESTAB cell is -2 with a
\* blank behind it, and the row has no error for LAESTAB
C1_Witness ==
    /\ Returned
    /\ LET recs == Records(LastCall.text)
       IN  \E k \in 2..Len(recs) :
               /\ Cell(recs[k], "RecordType") = <<"R","e","s","u","l","t">>
               /\ Cell(recs[k], "LAESTAB") = <<"-","2"," ">>
               /\ \A i \in 1..Len(LastCall.errors) : LastCall.errors[i].field # "LAESTAB"

\* C2: in every returned list, a row whose trimmed RecordType is Entry and
\* whose trimmed QualificationGrade is not -2 (blank included) has exactly
\* one ENTRY_RULE error on QualificationGrade.
C2_EntryGradeExactlyOne ==
    Returned =>
        LET recs == Records(LastCall.text)
        IN  \A k \in 2..Len(recs) :
                (/\ Strip(Cell(recs[k], "RecordType")) = <<"E","n","t","r","y">>
                 /\ Strip(Cell(recs[k], "QualificationGrade")) # <<"-","2">>)
                    => Cardinality(ErrorsAt(LastCall.errors, k, "QualificationGrade",
                                            {"ENTRY_RULE"})) = 1

\* A call has returned for an Entry row (RecordType padded with blanks)
\* whose grade is blank, with its one ENTRY_RULE error on the grade
C2_Witness ==
    /\ Returned
    /\ LET recs == Records(LastCall.text)
       IN  \E k \in 2..Len(recs) :
               /\ Cell(recs[k], "RecordType") = <<" ","E","n","t","r","y"," ">>
               /\ Cell(recs[k], "QualificationGrade") = <<>>
               /\ ErrorsAt(LastCall.errors, k, "QualificationGrade", {"ENTRY_RULE"}) # {}

\* The row has RecordType Result and an AwardDate that is a real date
\* before its FirstEntryDate, a real date too
AwardBeforeFirstEntry(rec) ==
    LET aw == parse_date(Cell(rec, "AwardDate"))
        fe == parse_date(Cell(rec, "FirstEntryDate"))
    IN  /\ Strip(Cell(rec, "RecordType")) = <<"R","e","s","u","l","t">>
        /\ aw.dt # NoDate /\ fe.dt # NoDate
        /\ aw.dt < fe.dt

\* C3: in every returned list, a Result row whose AwardDate and
\* FirstEntryDate are both real dates, the first strictly before the second,
\* has a DATE_ORDER error on AwardDate.
C3_AwardBeforeEntryFlagged ==
    Returned =>
        LET recs == Records(LastCall.text)
        IN  \A k \in 2..Len(recs) :
                AwardBeforeFirstEntry(recs[k])
                    => ErrorsAt(LastCall.errors, k, "AwardDate", {"DATE_ORDER"}) # {}

\* A call has returned for a Result row with FirstEntryDate 01/07/2026 and
\* AwardDate 2026-06-01 (in the other format, and padded), flagged DATE_ORDER
C3_Witness ==
    /\ Returned
    /\ LET recs == Records(LastCall.text)
       IN  \E k \in 2..Len(recs) :
               /\ AwardBeforeFirstEntry(recs[k])
               /\ Cell(recs[k], "FirstEntryDate") = <<"0","1","/","0","7","/","2","0","2","6">>
               /\ Cell(recs[k], "AwardDate") = <<" ","2","0","2","6","-","0","6","-","0","1"," ">>
               /\ ErrorsAt(LastCall.errors, k, "AwardDate", {"DATE_ORDER"}) # {}

\* The submission of scenario 4: one Result row with RegistrationDate
\* 2030-01-01, FirstEntryDate 2029-07-01 and AwardDate 2029-06-01, its
\* other fields valid
Scenario4Text ==
    <<HeaderLine,
      Line(WithDates(ResultRow, << <<"2","0","3","0","-","0","1","-","0","1">>, <<"2","0","2","9","-","0","7","-","0","1">>, <<"2","0","2","9","-","0","6","-","0","1">> >>), FALSE)>>

\* The errors of the list other than DATE_ORDER on AwardDate are DATE_FUTURE
OthersAreDateFuture(errs) ==
    \A i \in 1..Len(errs) :
        \/ errs[i].error_code = "DATE_ORDER" /\ errs[i].field = "AwardDate"
        \/ errs[i].error_code = "DATE_FUTURE"

\* C4 as claimed: for the submission of scenario 4 the returned list holds
\* exactly one DATE_ORDER error on AwardDate, and DATE_FUTURE errors besides.
C4_ExactlyOneDateOrder ==
    (Returned /\ LastCall.text = Scenario4Text) =>
        /\ Cardinality(ErrorsAt(LastCall.errors, 2, "AwardDate", {"DATE_ORDER"})) = 1
        /\ OthersAreDateFuture(LastCall.errors)

\* C4 as amended: for the submission of scenario 4 the returned list holds
\* exactly two DATE_ORDER errors on AwardDate, the one against FirstEntryDate
\* and then the one against RegistrationDate, and DATE_FUTURE errors besides.
C4_TwoDateOrders ==
    (Returned /\ LastCall.text = Scenario4Text) =>
        /\ SelectSeq(LastCall.errors, LAMBDA e : e.error_code = "DATE_ORDER")
             = << ValidationError(2, "AwardDate", "DATE_ORDER",
                                  "AwardDate must be on or after FirstEntryDate.",
                                  <<"2","0","2","9","-","0","6","-","0","1">>),
                  ValidationError(2, "AwardDate", "DATE_ORDER",
                                  "AwardDate must be on or after RegistrationDate.",
                                  <<"2","0","2","9","-","0","6","-","0","1">>) >>
        /\ OthersAreDateFuture(LastCall.errors)

\* The call on the submission of scenario 4 has returned, on a day when its
\* dates are still to come: DATE_FUTURE errors stand beside the DATE_ORDER ones
C4_Witness ==
    /\ Returned
    /\ LastCall.text = Scenario4Text
    /\ ErrorsAt(LastCall.errors, 2, "FirstEntryDate", {"DATE_FUTURE"}) # {}
    /\ ErrorsAt(LastCall.errors, 2, "AwardDate", {"DATE_ORDER"}) # {}

\* The reader's records of a text that are not blank, as their numbers
NonBlankRows(recs) ==
    {k \in 2..Len(recs) : ~IsBlankRow(recs[k].row)}

\* The tuples of the rows before row k that are not blank
SeenBefore(recs, k) ==
    {Normalize(recs[j].row) : j \in {j \in NonBlankRows(recs) : j < k}}

\* The list validate_csv_text owes for the records recs on the day given,
\* when only the rows that are not blank count, each under its own number:
\* the header's error, then the errors of each such row
RECURSIVE ErrorsFromRow(_, _, _)
ErrorsFromRow(recs, k, day) ==
    IF k > Len(recs) THEN <<>>
    ELSE (IF IsBlankRow(recs[k].row) THEN <<>>
          ELSE RowErrors(recs[k].row, k, SeenBefore(recs, k), day))
         \o ErrorsFromRow(recs, k + 1, day)

\* C5: a row whose cells are all blank (of any number of cells, none
\* included) has no error, is never in seen_rows unless a row that is not
\* blank has the same 34 cells, and the returned list is the one owed for the
\* other rows alone, each under the number it has in the input.
C5_BlankRowsIgnored ==
    /\ pc = "rows" =>
           LET recs == Records(SubSeq(lines, 1, line_num))
           IN  seen_rows = SeenBefore(recs, Len(recs) + 1)
    /\ (Returned /\ LastCall.text # <<>>) =>
           LET recs == Records(LastCall.text)
           IN  /\ \A k \in (2..Len(recs)) \ NonBlankRows(recs) :
                      \A i \in 1..Len(LastCall.errors) : LastCall.errors[i].row_number # k
               /\ LastCall.errors
                      = HeaderErrors(recs[1].row) \o ErrorsFromRow(recs, 2, today)

\* A call has returned on a text that holds a line of three blank cells
\* between a row and its repetition, which is flagged as a duplicate under
\* its own number, 4; nothing is reported for row 3
C5_Witness ==
    /\ Returned
    /\ LET recs == Records(LastCall.text)
       IN  /\ Len(recs) = 4
           /\ recs[3].row = << <<" ">>, <<>>, <<"TAB">> >>
           /\ ErrorsAt(LastCall.errors, 4, "*ROW*", {"DUPLICATE_ROW"}) # {}
           /\ \A i \in 1..Len(LastCall.errors) : LastCall.errors[i].row_number # 3

\* C6: in every returned list, a row that is not blank has one
\* DUPLICATE_ROW error (field *ROW*) if an earlier row that is not blank has
\* the same 34 cells after padding or cutting, and none otherwise.
C6_DuplicateIffSeenEarlier ==
    Returned =>
        LET recs == Records(LastCall.text)
        IN  \A k \in NonBlankRows(recs) :
                Cardinality({i \in 1..Len(LastCall.errors) :
                                /\ LastCall.errors[i].row_number = k
                                /\ LastCall.errors[i].error_code = "DUPLICATE_ROW"})
                    = (IF \E j \in NonBlankRows(recs) :
                              j < k /\ Normalize(recs[j].row) = Normalize(recs[k].row)
                       THEN 1 ELSE 0)

\* A call has returned on a text of three rows with the same 34 cells, the
\* second with a 35th cell: the first is not flagged, the second and the
\* third are
C6_Witness ==
    /\ Returned
    /\ LET recs == Records(LastCall.text)
       IN  /\ Len(recs) = 4
           /\ Len(recs[2].row) = 34 /\ Len(recs[3].row) = 35 /\ Len(recs[4].row) = 34
           /\ ErrorsAt(LastCall.errors, 2, "*ROW*", {"DUPLICATE_ROW"}) = {}
           /\ ErrorsAt(LastCall.errors, 3, "*ROW*", {"DUPLICATE_ROW"}) # {}
           /\ ErrorsAt(LastCall.errors, 4, "*ROW*", {"DUPLICATE_ROW"}) # {}

\* C7: in every list returned for an input with a header row: if the
\* normalized header differs from the 34 columns in any name or in order,
\* the first error is the one HEADER_MISMATCH error, of row 1 and field
\* *HEADER*; if it does not differ there is no HEADER_MISMATCH error; and
\* every other error has a row number of 2 or more.
C7_HeaderErrorFirst ==
    (Returned /\ LastCall.text # <<>>) =>
        LET errs == LastCall.errors
            header == NormalizeHeader(Records(LastCall.text)[1].row)
            mismatches == {i \in 1..Len(errs) : errs[i].error_code = "HEADER_MISMATCH"}
        IN  /\ header # ExpectedHeader =>
                   /\ mismatches = {1}
                   /\ errs[1].row_number = 1
                   /\ errs[1].field = "*HEADER*"
            /\ header = ExpectedHeader => mismatches = {}
            /\ \A i \in (1..Len(errs)) \ mismatches : errs[i].row_number >= 2

\* A call has returned on a text whose header has CentrePostcode and
\* CentreType swapped and whose data row has an error: HEADER_MISMATCH
\* comes first, the row's error after it
C7_Witness ==
    /\ Returned
    /\ Len(LastCall.text) = 2
    /\ LastCall.text[1].cells[21] = ColumnText["CentreType"]
    /\ LastCall.text[1].cells[22] = ColumnText["CentrePostcode"]
    /\ Len(LastCall.errors) >= 2
    /\ LastCall.errors[1].error_code = "HEADER_MISMATCH"
    /\ LastCall.errors[2].row_number = 2

\* C8: two calls on the same text, with any calls in between and today
\* unchanged, return the same list: no call sees the rows or errors of
\* another.
C8_SameTextSameErrors ==
    \A i, j \in 1..Len(calls) :
        calls[i].text = calls[j].text => calls[i].errors = calls[j].errors

\* Two calls have returned on the same text, which repeats a row: each
\* flags the second row only
C8_Witness ==
    /\ Len(calls) >= 2
    /\ calls[1].text = calls[2].text
    /\ \A c \in 1..2 :
           /\ ErrorsAt(calls[c].errors, 2, "*ROW*", {"DUPLICATE_ROW"}) = {}
           /\ ErrorsAt(calls[c].errors, 3, "*ROW*", {"DUPLICATE_ROW"}) # {}

\* The place of an error within its row: a field-level error has the number
\* of its column, a record-level error comes after the 34 columns in the
\* order of the rules.  MISSING is record-level on the three conditionally
\* mandatory fields and field-level elsewhere.
PlaceInRow(e) ==
    LET n == Len(EXPECTED_COLUMNS)
    IN  CASE e.error_code = "GROUP_RULE" -> n + 1
          [] e.error_code = "MISSING"
               /\ e.field \in {"FirstEntryDate", "AwardDate", "QualificationGrade"} -> n + 2
          [] e.error_code = "ENTRY_RULE" -> n + 3
          [] e.error_code = "SENTINEL_NOT_ALLOWED" -> n + 4
          [] e.error_code = "DATE_FUTURE" -> n + 5
          [] e.error_code = "DATE_ORDER" -> n + 6
          [] e.error_code = "RESULT_RULE" -> n + 7
          [] OTHER -> ColumnIndex(e.field)

\* C9: every returned list is in detection order: the header error first,
\* then row numbers that never decrease, and within a row the field-level
\* errors in the order of the columns, all before the record-level errors
\* in the order GROUP_RULE, conditional MISSING, ENTRY_RULE,
\* SENTINEL_NOT_ALLOWED, DATE_FUTURE, DATE_ORDER, RESULT_RULE.
C9_DetectionOrder ==
    Returned =>
        LET errs == LastCall.errors
        IN  \A i, j \in 1..Len(errs) :
                i < j =>
                    /\ errs[j].error_code # "HEADER_MISMATCH"
                    /\ errs[i].row_number <= errs[j].row_number
                    /\ (/\ errs[i].row_number = errs[j].row_number
                        /\ errs[i].field \notin {"*ROW*", "*HEADER*"}
                        /\ errs[j].field \notin {"*ROW*", "*HEADER*"})
                           => PlaceInRow(errs[i]) <= PlaceInRow(errs[j])

\* A call has returned with field-level errors in three different columns
\* and three different record-level errors after them, all of one row
C9_Witness ==
    /\ Returned
    /\ LET errs == LastCall.errors
       IN  /\ Cardinality({PlaceInRow(errs[i]) :
                              i \in {i \in 1..Len(errs) :
                                       /\ errs[i].row_number = 2
                                       /\ errs[i].field # "*ROW*"
                                       /\ PlaceInRow(errs[i]) <= 34}}) >= 3
           /\ Cardinality({PlaceInRow(errs[i]) :
                              i \in {i \in 1..Len(errs) :
                                       /\ errs[i].row_number = 2
                                       /\ errs[i].field # "*ROW*"
                                       /\ PlaceInRow(errs[i]) > 34}}) >= 3

\* The records the reader has yielded when it has consumed n lines of the text
RecordCount(text, n) ==
    Len(Records(SubSeq(text, 1, n)))

\* The errors a step of the loop has appended
NewErrors ==
    {errors'[i] : i \in (Len(errors) + 1)..Len(errors')}

\* C10 as claimed: every error a loop iteration appends carries the number
\* of a physical line of the row it is about (the header's line being 1).
C10_RowNumberIsLineNumber ==
    [][(pc = "rows" /\ pc' = "rows") =>
          \A e \in NewErrors : e.row_number \in (line_num + 1)..line_num']_vars

\* C10 as amended: every error a loop iteration appends carries the number
\* of its row among the records the reader yields (the header record being
\* 1), and row_idx counts those records, the blank ones that are skipped
\* included; a record whose quoted cell holds line breaks spans several
\* physical lines and counts once.
C10_RowNumberIsRecordNumber ==
    [][pc' = "rows" =>
          /\ pc = "rows" =>
                 \A e \in NewErrors : e.row_number = RecordCount(lines', line_num')
          /\ row_idx' = RecordCount(lines', line_num')]_vars

\* The loop has read a header of two physical lines, skipped an empty line
\* as row 2 and reported the errors of the row on line 4 as those of row 3
C10_Witness ==
    /\ pc = "rows"
    /\ line_num = 4
    /\ row_idx = 3
    /\ lines[3].cells = <<>>
    /\ errors # <<>>
    /\ errors[Len(errors)].row_number = 3


\* ------------------------------------------------------------------------
\* Blank cells of mandatory fields

\* The positions in errs of the errors of row k and field f
ErrorsOn(errs, k, f) ==
    {i \in 1..Len(errs) : errs[i].row_number = k /\ errs[i].field = f}

\* The fields marked mandatory whose blank the field validator reports
\* itself, Sex apart
ReportedMandatoryFields ==
    {"RecordType", "FirstName", "Surname", "NCN", "CentreURN", "LAESTAB",
     "CentreIdentifierOther", "UKPRN", "CentrePostcode", "CentreType",
     "QualificationNumberType", "QualificationNumber", "SpecificationCode",
     "SpecificationTitle", "QualificationType", "ExamSeries", "RegistrationDate",
     "PrivateCandidate", "PartialAbsence"}

\* In record rec, numbered k, a blank Sex or MiddleNames cell has no error
\* in errs, and a blank cell of another mandatory field has one, a MISSING
BlankCellsReported(errs, rec, k) ==
    /\ \A f \in {"Sex", "MiddleNames"} :
           Strip(Cell(rec, f)) = <<>> => ErrorsOn(errs, k, f) = {}
    /\ \A f \in ReportedMandatoryFields :
           Strip(Cell(rec, f)) = <<>>
               => /\ Cardinality(ErrorsOn(errs, k, f)) = 1
                  /\ \A i \in ErrorsOn(errs, k, f) : errs[i].error_code = "MISSING"

\* C11 as claimed: in every returned list, for every data row, a blank Sex
\* or MiddleNames cell has no error for its field, and a blank cell of any
\* other unconditionally mandatory field has exactly one error for its
\* field, with code MISSING.
C11_BlankMandatoryReported ==
    Returned =>
        LET recs == Records(LastCall.text)
        IN  \A k \in 2..Len(recs) : BlankCellsReported(LastCall.errors, recs[k], k)

\* C11 as amended: the same, for every data row that is not skipped as
\* blank (a row with at least one cell that is not blank).
C11_BlankMandatoryReportedOnValidatedRows ==
    Returned =>
        LET recs == Records(LastCall.text)
        IN  \A k \in 2..Len(recs) :
                ~IsBlankRow(recs[k].row)
                    => BlankCellsReported(LastCall.errors, recs[k], k)

\* A call has returned for the Result row whose Sex, MiddleNames, NCN and
\* RegistrationDate cells are blank: no error for Sex or MiddleNames, one
\* MISSING for NCN and one for RegistrationDate
C11_Witness ==
    /\ Returned
    /\ LastCall.text = <<HeaderLine, Line(BlankCellsRow, FALSE)>>
    /\ ErrorsOn(LastCall.errors, 2, "Sex") = {}
    /\ ErrorsOn(LastCall.errors, 2, "MiddleNames") = {}
    /\ ErrorsAt(LastCall.errors, 2, "NCN", {"MISSING"}) # {}
    /\ ErrorsAt(LastCall.errors, 2, "RegistrationDate", {"MISSING"}) # {}

\* ------------------------------------------------------------------------
\* Blank cells of the conditionally mandatory fields

ConditionalMandatoryFields ==
    {"FirstEntryDate", "AwardDate", "QualificationGrade"}

IsResultOrAmendment(rec) ==
    Strip(Cell(rec, "RecordType")) \in {<<"R","e","s","u","l","t">>, <<"A","m","e","n","d","m","e","n","t">>}

\* C12: in every returned list, a blank FirstEntryDate, AwardDate or
\* QualificationGrade cell has exactly one MISSING error for its row and
\* field when the row's RecordType is Result or Amendment, and no MISSING
\* error when the RecordType is anything else.
C12_ConditionalMissingOnce ==
    Returned =>
        LET recs == Records(LastCall.text)
        IN  \A k \in 2..Len(recs) : \A f \in ConditionalMandatoryFields :
                Strip(Cell(recs[k], f)) = <<>>
                    => Cardinality(ErrorsAt(LastCall.errors, k, f, {"MISSING"}))
                           = IF IsResultOrAmendment(recs[k]) THEN 1 ELSE 0

\* A call has returned for an Amendment row (RecordType padded with blanks)
\* whose FirstEntryDate is empty and whose AwardDate is a blank, each with
\* its one MISSING error
C12_Witness ==
    /\ Returned
    /\ LET recs == Records(LastCall.text)
       IN  \E k \in 2..Len(recs) :
               /\ Cell(recs[k], "RecordType") = <<" ","A","m","e","n","d","m","e","n","t"," ">>
               /\ Cell(recs[k], "FirstEntryDate") = <<>>
               /\ Cell(recs[k], "AwardDate") = <<" ">>
               /\ Cardinality(ErrorsAt(LastCall.errors, k, "FirstEntryDate", {"MISSING"})) = 1
               /\ Cardinality(ErrorsAt(LastCall.errors, k, "AwardDate", {"MISSING"})) = 1

\* ------------------------------------------------------------------------
\* Structural errors do not stop the validation of a row

\* The field-level and record-level errors of row k in errs, in order
FieldAndRecordErrors(errs, k) ==
    SelectSeq(errs, LAMBDA e : e.row_number = k /\ e.field # "*ROW*")

\* What the loop reports for a row of 34 cells, numbered k, in a submission
\* with the specified header and no row before it: nothing if its cells are
\* all blank, and its field-level and record-level errors otherwise
ErrorsOnItsOwn(row34, k, day) ==
    IF IsBlankRow(row34) THEN <<>> ELSE RowErrors(row34, k, {}, day)

\* Row k of the returned call has one COLUMN_COUNT error if its cells are
\* not 34, and none otherwise
ColumnCountOnce(recs, k) ==
    Cardinality(ErrorsAt(LastCall.errors, k, "*ROW*", {"COLUMN_COUNT"}))
        = IF Len(recs[k].row) # Len(EXPECTED_COLUMNS) THEN 1 ELSE 0

\* C13 as claimed: in every returned list, every data row that is not blank
\* has one COLUMN_COUNT error exactly when its cells are not 34, and its
\* field-level and record-level errors are those its 34 cells (cut or
\* padded) have as a row of a submission with the specified header and no
\* duplicate, whatever the header, the cell count and the rows before it.
C13_RowErrorsAsOnItsOwn ==
    Returned =>
        LET recs == Records(LastCall.text)
        IN  \A k \in 2..Len(recs) :
                ~IsBlankRow(recs[k].row)
                    => /\ ColumnCountOnce(recs, k)
                       /\ FieldAndRecordErrors(LastCall.errors, k)
                              = ErrorsOnItsOwn(Normalize(recs[k].row), k, today)

\* C13 as amended: the same, except for a row of more than 34 cells whose
\* first 34 cells are all blank: it is validated as 34 blank cells, while
\* the row of 34 blank cells on its own is skipped.
C13_RowErrorsAsValidated ==
    Returned =>
        LET recs == Records(LastCall.text)
        IN  \A k \in 2..Len(recs) :
                ~IsBlankRow(recs[k].row)
                    => /\ ColumnCountOnce(recs, k)
                       /\ FieldAndRecordErrors(LastCall.errors, k)
                              = RowErrors(Normalize(recs[k].row), k, {}, today)
                       /\ ~IsBlankRow(Normalize(recs[k].row))
                              => FieldAndRecordErrors(LastCall.errors, k)
                                     = ErrorsOnItsOwn(Normalize(recs[k].row), k, today)

\* A call has returned for a header of 33 columns and the same row of 33
\* cells twice: HEADER_MISMATCH, and for the second row COLUMN_COUNT,
\* DUPLICATE_ROW and the MISSING error of its padded 34th cell
C13_Witness ==
    /\ Returned
    /\ LastCall.text = <<Line(SubSeq(ExpectedHeader, 1, 33), FALSE), ShortRow, ShortRow>>
    /\ LastCall.errors[1].error_code = "HEADER_MISMATCH"
    /\ ErrorsAt(LastCall.errors, 3, "*ROW*", {"COLUMN_COUNT"}) # {}
    /\ ErrorsAt(LastCall.errors, 3, "*ROW*", {"DUPLICATE_ROW"}) # {}
    /\ ErrorsAt(LastCall.errors, 3, "PartialAbsence", {"MISSING"}) # {}

\* ------------------------------------------------------------------------
\* Sentinel dates

IsSentinel(cell) ==
    Strip(cell) \in SENTINEL_DATES

\* The positions in errs of the DATE_ORDER errors of row k that compare
\* AwardDate with FirstEntryDate
OrderAgainstFirstEntry(errs, k) ==
    {i \in ErrorsAt(errs, k, "AwardDate", {"DATE_ORDER"}) :
        errs[i].message = "AwardDate must be on or after FirstEntryDate."}

\* C14: in every returned list, a sentinel date in FirstEntryDate or
\* AwardDate of a Result or Amendment row has exactly one
\* SENTINEL_NOT_ALLOWED error for its field and no DATE_FORMAT, DATE_RANGE
\* or DATE_FUTURE error; no DATE_ORDER error compares it (none at all for a
\* sentinel AwardDate, none against FirstEntryDate for a sentinel
\* FirstEntryDate); in an Entry row the sentinel has no error for its field.
C14_SentinelNeverADate ==
    Returned =>
        LET recs == Records(LastCall.text)
            errs == LastCall.errors
        IN  \A k \in 2..Len(recs) : \A f \in {"FirstEntryDate", "AwardDate"} :
                IsSentinel(Cell(recs[k], f))
                    => /\ IsResultOrAmendment(recs[k])
                           => /\ Cardinality(ErrorsAt(errs, k, f, {"SENTINEL_NOT_ALLOWED"})) = 1
                              /\ ErrorsAt(errs, k, f,
                                          {"DATE_FORMAT", "DATE_RANGE", "DATE_FUTURE"}) = {}
                              /\ f = "AwardDate"
                                     => ErrorsAt(errs, k, "AwardDate", {"DATE_ORDER"}) = {}
                              /\ f = "FirstEntryDate"
                                     => OrderAgainstFirstEntry(errs, k) = {}
                       /\ Strip(Cell(recs[k], "RecordType")) = <<"E","n","t","r","y">>
                           => ErrorsOn(errs, k, f) = {}

\* A call has returned for a Result row with FirstEntryDate 2999-12-31 and
\* AwardDate 2026-06-01, a past date: one SENTINEL_NOT_ALLOWED on
\* FirstEntryDate and no other error for the row
C14_Witness ==
    /\ Returned
    /\ LET recs == Records(LastCall.text)
       IN  \E k \in 2..Len(recs) :
               /\ Cell(recs[k], "RecordType") = <<"R","e","s","u","l","t">>
               /\ Cell(recs[k], "FirstEntryDate") = <<"2","9","9","9","-","1","2","-","3","1">>
               /\ Cell(recs[k], "AwardDate") = <<"2","0","2","6","-","0","6","-","0","1">>
               /\ Cardinality(ErrorsAt(LastCall.errors, k, "FirstEntryDate",
                                       {"SENTINEL_NOT_ALLOWED"})) = 1
               /\ Len(LastCall.errors) = 1

\* ------------------------------------------------------------------------
\* Error codes that depend on the record type

ResultOnlyCodes ==
    {"SENTINEL_NOT_ALLOWED", "DATE_FUTURE", "DATE_ORDER", "RESULT_RULE"}

\* The codes of the errors of row k in errs
CodesOfRow(errs, k) ==
    {errs[i].error_code : i \in {j \in 1..Len(errs) : errs[j].row_number = k}}

\* C15: in every returned list, ENTRY_RULE is reported only for rows whose
\* trimmed RecordType is Entry; SENTINEL_NOT_ALLOWED, DATE_FUTURE,
\* DATE_ORDER and RESULT_RULE only for rows whose trimmed RecordType is
\* Result or Amendment; no row has both ENTRY_RULE and RESULT_RULE; and a
\* Result or Amendment row whose trimmed QualificationGrade is -2 has a
\* RESULT_RULE error on QualificationGrade.
C15_CodesConfinedToRecordType ==
    Returned =>
        LET recs == Records(LastCall.text)
            errs == LastCall.errors
        IN  \A k \in 2..Len(recs) :
                /\ "ENTRY_RULE" \in CodesOfRow(errs, k)
                       => Strip(Cell(recs[k], "RecordType")) = <<"E","n","t","r","y">>
                /\ CodesOfRow(errs, k) \cap ResultOnlyCodes # {}
                       => IsResultOrAmendment(recs[k])
                /\ ~({"ENTRY_RULE", "RESULT_RULE"} \subseteq CodesOfRow(errs, k))
                /\ (IsResultOrAmendment(recs[k])
                    /\ Strip(Cell(recs[k], "QualificationGrade")) = MINUS2)
                       => ErrorsAt(errs, k, "QualificationGrade", {"RESULT_RULE"}) # {}

\* A call has returned for an Amendment row (RecordType padded with blanks)
\* whose grade is -2 between blanks and whose dates are in the future and
\* out of order: RESULT_RULE, DATE_FUTURE and DATE_ORDER, and no ENTRY_RULE
C15_Witness ==
    /\ Returned
    /\ LET recs == Records(LastCall.text)
       IN  \E k \in 2..Len(recs) :
               /\ Cell(recs[k], "RecordType") = <<" ","A","m","e","n","d","m","e","n","t"," ">>
               /\ Cell(recs[k], "QualificationGrade") = <<" ","-","2"," ">>
               /\ {"RESULT_RULE", "DATE_FUTURE", "DATE_ORDER"}
                      \subseteq CodesOfRow(LastCall.errors, k)
               /\ "ENTRY_RULE" \notin CodesOfRow(LastCall.errors, k)
=============================================================================
